---- MODULE Spec2Model ----
(***************************************************************************)
(* Library resources plugin (src/plugin/library-resources.ts): two         *)
(* registry files (global, project), the working-copy directories, and     *)
(* the resource_manage operations add / remove / list / update / info /    *)
(* restore, with the clone and pull providers as suspension points.        *)
(***************************************************************************)
EXTENDS Integers, Sequences, FiniteSets, TLC

VARIABLES files, dirs, clock, calls

vars == <<files, dirs, clock, calls>>

\* ------------------------------------------------------------------ bounds
MaxClock == 1

Names == {"svelte", "ghost"}
Procs == {"p1", "p2"}
Undefined == "undefined"

\* ------------------------------------------------------------ paths (fs)
\* path.join(dir, leaf) joins and normalises: a "." segment is dropped and a
\* ".." segment takes the segment before it away. The segments of a leaf are
\* what lies between its separators.
pathSegments(leaf) == IF leaf = "./svelte" THEN <<".", "svelte">> ELSE <<leaf>>
RECURSIVE pathNormalize(_, _)
pathNormalize(joined, rest) ==
    IF rest = <<>> THEN joined
    ELSE IF Head(rest) = "." THEN pathNormalize(joined, Tail(rest))
    ELSE IF Head(rest) = ".." /\ joined # <<>>
    THEN pathNormalize(SubSeq(joined, 1, Len(joined) - 1), Tail(rest))
    ELSE pathNormalize(Append(joined, Head(rest)), Tail(rest))
pathJoin(dir, leaf) == pathNormalize(dir, pathSegments(leaf))
pathDirname(p) == SubSeq(p, 1, Len(p) - 1)

GLOBAL_RESOURCES_DIR == <<"homedir", ".config/opencode/resources">>
GLOBAL_REPOS_DIR == pathJoin(GLOBAL_RESOURCES_DIR, "repos")
GLOBAL_REGISTRY == pathJoin(GLOBAL_RESOURCES_DIR, "resources.json")
PROJECT_RESOURCES_DIR == <<"ctx.directory", ".opencode/resources">>
PROJECT_REPOS_DIR == pathJoin(PROJECT_RESOURCES_DIR, "repos")
PROJECT_REGISTRY == pathJoin(PROJECT_RESOURCES_DIR, "resources.json")

RegistryPaths == {GLOBAL_REGISTRY, PROJECT_REGISTRY}

\* ------------------------------------------------- registry file contents
\* A file is absent or holds a text; a text is either the serialisation of a
\* registry value or something JSON.parse rejects.
NoFile == [exists |-> FALSE, json |-> FALSE, version |-> 0, resources |-> <<>>]
GarbageText == [exists |-> TRUE, json |-> FALSE, version |-> 0, resources |-> <<>>]
JSONstringify(registry) ==
    [exists |-> TRUE, json |-> TRUE,
     version |-> registry.version, resources |-> registry.resources]
JSONparses(text) == text.json
JSONparse(text) == [version |-> text.version, resources |-> text.resources]

EmptyRegistry == [version |-> 1, resources |-> <<>>]

\* fs.mkdirSync(dir, {recursive: true}): dir and its missing ancestors.
ensureDir(D, dir) ==
    IF dir \in D THEN D
    ELSE D \cup {SubSeq(dir, 1, k) : k \in 2..Len(dir)}

\* Variant: JSON.parse outside the try, its result taken as it comes.
loadRegistry_noCatch(F, registryPath) ==
    IF ~F[registryPath].exists THEN EmptyRegistry
    ELSE JSONparse(F[registryPath])

loadRegistry(F, registryPath) ==
    IF ~F[registryPath].exists THEN EmptyRegistry
    ELSE IF JSONparses(F[registryPath]) THEN JSONparse(F[registryPath])
    ELSE EmptyRegistry

\* Variant: the records are added to the ones the file already holds.
saveRegistryFiles_merge(F, registryPath, registry) ==
    [F EXCEPT ![registryPath] =
        JSONstringify([registry EXCEPT
            !.resources = loadRegistry(F, registryPath).resources \o @])]

\* saveRegistry: the file written (full overwrite) and the directories made.
saveRegistryFiles(F, registryPath, registry) ==
    [F EXCEPT ![registryPath] = JSONstringify(registry)]
saveRegistryDirs(D, registryPath) == ensureDir(D, pathDirname(registryPath))

\* ------------------------------------------------------------ merged view
\* Map.set(r.name, v): an existing key keeps its position and takes the new
\* value; a new key goes last.
RECURSIVE MapSetAt(_, _, _)
MapSetAt(m, v, k) ==
    IF k > Len(m) THEN Append(m, v)
    ELSE IF m[k].name = v.name THEN [m EXCEPT ![k] = v]
    ELSE MapSetAt(m, v, k + 1)
MapSet(m, v) == MapSetAt(m, v, 1)

\* lines 65 and 68: { ...r, scope }, the scope of the store after the
\* record's own fields, so it replaces a scope the record declares.
\* Variant: { scope, ...r }, so a scope the record declares stays.
tagged_keepDeclared(r, scope) ==
    IF r.scope # Undefined THEN r ELSE [r EXCEPT !.scope = scope]

tagged(r, scope) == [r EXCEPT !.scope = scope]

RECURSIVE SetAll(_, _, _, _)
SetAll(m, rs, scope, k) ==
    IF k > Len(rs) THEN m
    ELSE SetAll(MapSet(m, tagged(rs[k], scope)), rs, scope, k + 1)

\* Variant: the two loops in the other order, so a global record overwrites
\* the project record of the same name.
getMergedResources_projectFirst(F) ==
    LET globalRegistry == loadRegistry(F, GLOBAL_REGISTRY)
        projectRegistry == loadRegistry(F, PROJECT_REGISTRY)
        afterProject == SetAll(<<>>, projectRegistry.resources, "project", 1)
    IN  SetAll(afterProject, globalRegistry.resources, "global", 1)

\* Variant: the project registry is never read.
getMergedResources_globalOnly(F) ==
    SetAll(<<>>, loadRegistry(F, GLOBAL_REGISTRY).resources, "global", 1)

getMergedResources(F) ==
    LET globalRegistry == loadRegistry(F, GLOBAL_REGISTRY)
        projectRegistry == loadRegistry(F, PROJECT_REGISTRY)
        afterGlobal == SetAll(<<>>, globalRegistry.resources, "global", 1)
    IN  SetAll(afterGlobal, projectRegistry.resources, "project", 1)

getResourcePath(resource) ==
    IF resource.scope = "project"
    THEN pathJoin(PROJECT_REPOS_DIR, resource.name)
    ELSE pathJoin(GLOBAL_REPOS_DIR, resource.name)

registryPathOf(scope) ==
    IF scope = "project" THEN PROJECT_REGISTRY ELSE GLOBAL_REGISTRY
reposDirOf(scope) ==
    IF scope = "project" THEN PROJECT_REPOS_DIR ELSE GLOBAL_REPOS_DIR

NoResource ==
    [name |-> Undefined, url |-> Undefined, branch |-> Undefined,
     notes |-> Undefined, scope |-> Undefined, clonedAt |-> 0, updatedAt |-> 0]

\* Array.prototype.find over the merged view: the first match or undefined.
findMatches(F, name) ==
    SelectSeq(getMergedResources(F), LAMBDA r : r.name = name)
findResource(F, name) ==
    IF findMatches(F, name) = <<>> THEN NoResource ELSE findMatches(F, name)[1]

\* ------------------------------------------------------- invocation state
NoResponse ==
    [kind |-> "none", scope |-> Undefined, resource |-> NoResource,
     resources |-> <<>>, lines |-> <<>>, stats |-> "none"]
Respond(kind) == [NoResponse EXCEPT !.kind = kind]

InitFiles == [f \in RegistryPaths |-> NoFile]

IdleCall ==
    [pc |-> "idle", action |-> "none", name |-> Undefined, url |-> Undefined,
     branch |-> Undefined, notes |-> Undefined, project |-> FALSE,
     resources |-> <<>>, i |-> 1, results |-> <<>>, response |-> NoResponse,
     given |-> [branch |-> Undefined, notes |-> Undefined],
     provider |-> <<>>, saved |-> <<>>, stamped |-> <<>>,
     loaded |-> EmptyRegistry,
     pre |-> [files |-> InitFiles, dirs |-> {}]]

\* execute(args): the destructuring of args with its defaults (lines 123-130).
\* An omitted project flag and project = false are the same value, FALSE;
\* update, info, restore and list never read the flag, and it is kept FALSE
\* in their invocations.
Default(v, d) == IF v = Undefined THEN d ELSE v
NewCall(action, name, url, branch, notes, project) ==
    [IdleCall EXCEPT !.pc = "running", !.action = action, !.name = name,
                     !.url = url, !.branch = Default(branch, "main"),
                     !.notes = Default(notes, ""),
                     !.project = project,
                     !.given = [branch |-> branch, notes |-> notes],
                     !.pre = [files |-> files, dirs |-> dirs]]

Finish(c, response) == [c EXCEPT !.pc = "done", !.response = response]

\* Bookkeeping of an invocation: provider is the log of its provider calls,
\* saved the registry files it has written, in order, stamped the name and
\* the updatedAt of each timestamp write of update and restore, in order, and
\* pre the files and directories it started from.

\* No invocation of p is in flight and none waits to hand over its response.
Quiet(p) == calls[p].pc = "idle"
AllQuiet == \A q \in Procs : Quiet(q)

CloneCall(branch, url, repoPath) ==
    [cmd |-> "clone", branch |-> branch, url |-> url, path |-> repoPath,
     outcome |-> "pending"]
PullCall(repoPath) ==
    [cmd |-> "pull", branch |-> Undefined, url |-> Undefined, path |-> repoPath,
     outcome |-> "pending"]

\* Outcomes of a provider call: exit status 0, non-zero status, or a throw.
Outcomes == {"ok", "nonzero", "throw"}
exitCodeZero(outcome) == outcome = "ok"
\* The provider call in flight has returned (or thrown) with this outcome.
Returned(c, outcome) ==
    [c EXCEPT !.provider = [@ EXCEPT ![Len(@)].outcome = outcome]]

\* new Date(): time does not run backwards; it may or may not have advanced.
NowChoices == {t \in {clock, clock + 1} : t <= MaxClock}

\* Argument values offered to add: one call that leaves branch and notes to
\* their defaults, one that gives them, and calls with name or url missing.
AddInputs ==
    {[name |-> "svelte", url |-> "u1", branch |-> Undefined, notes |-> Undefined],
     [name |-> "ghost", url |-> "u2", branch |-> "dev", notes |-> "docs"],
     [name |-> Undefined, url |-> "u1", branch |-> Undefined, notes |-> Undefined],
     [name |-> "ghost", url |-> Undefined, branch |-> Undefined, notes |-> Undefined]}
\* Arguments of add whose names are different strings with a separator in
\* one of them (name is any string: line 109).
AliasInputs ==
    {[name |-> n, url |-> "u1", branch |-> Undefined, notes |-> Undefined] :
        n \in {"svelte", "./svelte"}}
NameArgs == Names \cup {Undefined}
\* url and branch offered to restore: given, and different from every
\* registered url and branch.
RestoreInputs == {[url |-> "u9", branch |-> "other"]}
ProjectArgs == BOOLEAN

Init ==
    /\ files = InitFiles
    /\ dirs = {}
    /\ clock = 0
    /\ calls = [p \in Procs |-> IdleCall]

\* ---------------------------------------------------------------- add
addTargetScope(project) == IF project THEN "project" ELSE "global"

addRecord(c, now) ==
    [name |-> c.name, url |-> c.url, branch |-> c.branch, notes |-> c.notes,
     scope |-> addTargetScope(c.project), clonedAt |-> now, updatedAt |-> now]

\* lines 143-147: the duplicate check looks the name up in the merged view.
\* Variant: the duplicate check reads the global registry only.
addExisting_globalOnly(F, name) ==
    IF SelectSeq(loadRegistry(F, GLOBAL_REGISTRY).resources,
                 LAMBDA r : r.name = name) = <<>>
    THEN NoResource
    ELSE [SelectSeq(loadRegistry(F, GLOBAL_REGISTRY).resources,
                    LAMBDA r : r.name = name)[1] EXCEPT !.scope = "global"]

addExisting(F, name) == findResource(F, name)

\* lines 155-160: a non-zero exit status and a throw both end add in error.
\* Variant: the exit status is not looked at; only a throw is a failure.
cloneFailed_throwOnly(outcome) == outcome = "throw"

cloneFailed(outcome) == ~exitCodeZero(outcome)

\* lines 165-173: registry.resources.push(record).
\* Variant: the new record replaces the list instead of being pushed to it.
registryPush_replace(registry, rec) == [registry EXCEPT !.resources = <<rec>>]

registryPush(registry, rec) == [registry EXCEPT !.resources = Append(@, rec)]

\* lines 133-154: argument check, duplicate check, ensureDir, start of clone.
AddStart(p, inp, project) ==
    LET c == NewCall("add", inp.name, inp.url, inp.branch, inp.notes, project)
        scope == addTargetScope(c.project)
        reposDir == reposDirOf(scope)
        repoPath == pathJoin(reposDir, c.name)
        existing == addExisting(files, c.name)
    IN  /\ Quiet(p)
        /\ IF c.name = Undefined \/ c.url = Undefined
           THEN /\ calls' = [calls EXCEPT ![p] = Finish(c, Respond("usage"))]
                /\ dirs' = dirs
           ELSE IF existing # NoResource
           THEN /\ calls' = [calls EXCEPT ![p] =
                        Finish(c, [Respond("duplicate") EXCEPT
                                       !.scope = existing.scope])]
                /\ dirs' = dirs
           ELSE /\ dirs' = ensureDir(dirs, reposDir)
                /\ calls' = [calls EXCEPT ![p] =
                        [c EXCEPT !.pc = "clone",
                                  !.provider = Append(@,
                                      CloneCall(c.branch, c.url, repoPath))]]
        /\ UNCHANGED <<files, clock>>

\* lines 152-174: the clone returns; on exit status 0 load, push, save.
AddCloneReturn(p, outcome, now) ==
    LET c == Returned(calls[p], outcome)
        scope == addTargetScope(c.project)
        registryPath == registryPathOf(scope)
        repoPath == pathJoin(reposDirOf(scope), c.name)
        registry == loadRegistry(files, registryPath)
        pushed == registryPush(registry, addRecord(c, now))
    IN  /\ c.pc = "clone" /\ c.action = "add"
        /\ IF ~cloneFailed(outcome)
           THEN /\ files' = saveRegistryFiles(files, registryPath, pushed)
                /\ dirs' = saveRegistryDirs(dirs \cup {repoPath}, registryPath)
                /\ clock' = now
                /\ calls' = [calls EXCEPT ![p] =
                        [c EXCEPT !.pc = "stats",
                                  !.saved = Append(@, registryPath)]]
           ELSE /\ calls' = [calls EXCEPT ![p] =
                        Finish(c, Respond("cloneError"))]
                /\ UNCHANGED <<files, dirs, clock>>

\* Seen from another operating-system process, the load of line 162 and the
\* save of line 174 are two file-system calls with nothing that keeps a
\* second process out between them. The two actions below are
\* AddCloneReturn in these two steps; loaded is the local `registry`.
\* lines 152-162: the clone returns; on exit status 0 the registry is loaded.
AddLoad(p, outcome) ==
    LET c == Returned(calls[p], outcome)
        scope == addTargetScope(c.project)
        registryPath == registryPathOf(scope)
        repoPath == pathJoin(reposDirOf(scope), c.name)
    IN  /\ c.pc = "clone" /\ c.action = "add"
        /\ IF ~cloneFailed(outcome)
           THEN /\ dirs' = dirs \cup {repoPath}
                /\ calls' = [calls EXCEPT ![p] =
                        [c EXCEPT !.pc = "loaded",
                                  !.loaded = loadRegistry(files, registryPath)]]
           ELSE /\ calls' = [calls EXCEPT ![p] =
                        Finish(c, Respond("cloneError"))]
                /\ dirs' = dirs
        /\ UNCHANGED <<files, clock>>

\* lines 162-174: the registry that is pushed to and saved is the one the
\* invocation loaded.
\* Variant: the file is read again at the moment of the save, as under a
\* lock held from load to save.
addLoaded_reread(c, F, registryPath) == loadRegistry(F, registryPath)

addLoaded(c, F, registryPath) == c.loaded

\* lines 163-174: push and save.
AddSave(p, now) ==
    LET c == calls[p]
        registryPath == registryPathOf(addTargetScope(c.project))
        pushed == registryPush(addLoaded(c, files, registryPath),
                               addRecord(c, now))
    IN  /\ c.pc = "loaded" /\ c.action = "add"
        /\ files' = saveRegistryFiles(files, registryPath, pushed)
        /\ dirs' = saveRegistryDirs(dirs, registryPath)
        /\ clock' = now
        /\ calls' = [calls EXCEPT ![p] =
                [c EXCEPT !.pc = "stats", !.saved = Append(@, registryPath)]]

\* lines 176-194: find / du; their failure only leaves the stats unknown.
AddStatsReturn(p, known) ==
    LET c == calls[p]
    IN  /\ c.pc = "stats" /\ c.action = "add"
        /\ calls' = [calls EXCEPT ![p] =
                Finish(c, [Respond("added") EXCEPT
                               !.scope = addTargetScope(c.project),
                               !.stats = IF known THEN "known" ELSE "unknown"])]
        /\ UNCHANGED <<files, dirs, clock>>

\* ---------------------------------------------------------------- remove
\* lines 213-216: fs.rmSync(repoPath, {recursive: true}) when it exists.
\* Variant: the working copy is left on disk.
removeDir_keep(D, repoPath) == D

removeDir(D, repoPath) == D \ {repoPath}

\* lines 207-210: the registry file of the scope of the resolved resource.
\* Variant: the registry file of the scope the call asks for.
removeRegistryPath_byArg(resource, project) ==
    registryPathOf(addTargetScope(project))

removeRegistryPath(resource, project) == registryPathOf(resource.scope)

\* lines 219-222: registry.resources.filter((r) => r.name !== name).
\* Variant: the records are saved as they were loaded.
removeFiltered_none(registry, name) == registry

removeFiltered(registry, name) ==
    [registry EXCEPT !.resources = SelectSeq(@, LAMBDA r : r.name # name)]

\* lines 197-226.
Remove(p, name, project) ==
    LET c == NewCall("remove", name, Undefined, Undefined, Undefined, project)
        resource == findResource(files, c.name)
        registryPath == removeRegistryPath(resource, c.project)
        repoPath == getResourcePath(resource)
        registry == loadRegistry(files, registryPath)
        filtered == removeFiltered(registry, c.name)
    IN  /\ Quiet(p)
        /\ IF c.name = Undefined
           THEN /\ calls' = [calls EXCEPT ![p] = Finish(c, Respond("usage"))]
                /\ UNCHANGED <<files, dirs>>
           ELSE IF resource = NoResource
           THEN /\ calls' = [calls EXCEPT ![p] = Finish(c, Respond("notFound"))]
                /\ UNCHANGED <<files, dirs>>
           ELSE /\ files' = saveRegistryFiles(files, registryPath, filtered)
                /\ dirs' = saveRegistryDirs(removeDir(dirs, repoPath), registryPath)
                /\ calls' = [calls EXCEPT ![p] =
                        Finish([c EXCEPT !.saved = Append(@, registryPath)],
                               [Respond("removed") EXCEPT !.resource = resource])]
        /\ UNCHANGED clock

\* ---------------------------------------------------------------- list
\* lines 228-245.
listLine(r, D) ==
    [name |-> r.name,
     text |-> IF getResourcePath(r) \in D THEN "" ELSE "[NOT CLONED]"]
List(p) ==
    LET c == NewCall("list", Undefined, Undefined, Undefined, Undefined, FALSE)
        resources == getMergedResources(files)
    IN  /\ Quiet(p)
        /\ calls' = [calls EXCEPT ![p] =
                IF Len(resources) = 0
                THEN Finish(c, Respond("empty"))
                ELSE Finish(c, [Respond("listing") EXCEPT
                        !.resources = resources,
                        !.lines = [k \in 1..Len(resources) |->
                                       listLine(resources[k], dirs)]])]
        /\ UNCHANGED <<files, dirs, clock>>

\* execute returns: the response goes to the caller and the invocation ends.
Deliver(p) ==
    /\ calls[p].pc = "done"
    /\ calls' = [calls EXCEPT ![p] = IdleCall]
    /\ UNCHANGED <<files, dirs, clock>>

\* ---------------------------------------------------------------- update
resultLine(name, text) == [name |-> name, text |-> text]

\* lines 248-250 and 347-349: the targeted resources.
\* Variant: an unknown name falls back to the whole merged view.
targets_fallbackAll(F, name) ==
    IF name # Undefined /\ findResource(F, name) # NoResource
    THEN <<findResource(F, name)>>
    ELSE getMergedResources(F)

targets(F, name) ==
    IF name # Undefined
    THEN SelectSeq(<<findResource(F, name)>>, LAMBDA r : r # NoResource)
    ELSE getMergedResources(F)

\* line 262: !fs.existsSync(repoPath).
\* Variant: the existence check is missing.
notCloned_never(r, D) == FALSE

notCloned(r, D) == getResourcePath(r) \notin D

\* lines 258-271 and 297-298: the loop runs without suspension over resources
\* that are not cloned, up to the next pull or to the end of the list.
RECURSIVE updateScan(_, _)
updateScan(c, D) ==
    IF c.i > Len(c.resources)
    THEN Finish(c, [Respond("report") EXCEPT !.lines = c.results])
    ELSE IF notCloned(c.resources[c.i], D)
    THEN updateScan([c EXCEPT
                        !.results = Append(@, resultLine(c.resources[c.i].name,
                                                         "Not cloned")),
                        !.i = @ + 1], D)
    ELSE [c EXCEPT !.pc = "pull",
                   !.provider = Append(@,
                       PullCall(getResourcePath(c.resources[c.i])))]

\* lines 247-271.
UpdateStart(p, name) ==
    LET c0 == NewCall("update", name, Undefined, Undefined, Undefined, FALSE)
        c == [c0 EXCEPT !.resources = targets(files, c0.name)]
    IN  /\ Quiet(p)
        /\ calls' = [calls EXCEPT ![p] =
                IF Len(c.resources) = 0
                THEN Finish(c, Respond(IF c.name # Undefined
                                       THEN "notFound" ELSE "nothingToUpdate"))
                ELSE updateScan(c, dirs)]
        /\ UNCHANGED <<files, dirs, clock>>

\* Variant: the first record named name is replaced by a record cloned now.
touchRegistry_recloned(registry, name, now) ==
    [registry EXCEPT !.resources =
        [k \in 1..Len(@) |->
            IF k = CHOOSE j \in 1..Len(@) :
                      /\ @[j].name = name
                      /\ \A h \in 1..(j - 1) : @[h].name # name
            THEN [@[k] EXCEPT !.clonedAt = now, !.updatedAt = now]
            ELSE @[k]]]

\* lines 279-286 and 380-387: refresh updatedAt of the record named name.
touchRegistry(registry, name, now) ==
    [registry EXCEPT !.resources =
        [k \in 1..Len(@) |->
            IF k = CHOOSE j \in 1..Len(@) :
                      /\ @[j].name = name
                      /\ \A h \in 1..(j - 1) : @[h].name # name
            THEN [@[k] EXCEPT !.updatedAt = now]
            ELSE @[k]]]
registryHas(registry, name) ==
    \E k \in 1..Len(registry.resources) : registry.resources[k].name = name

\* lines 275-278 and 376-379: the registry file of the resource's scope.
\* Variant: always the global registry file.
touchRegistryPath_global(r) == GLOBAL_REGISTRY

touchRegistryPath(r) == registryPathOf(r.scope)

\* lines 279 and 380: the registry is loaded inside the loop body, after the
\* provider call has returned.
\* Variant: the registry as it was when the invocation started.
freshRegistry_stale(F, c, registryPath) == loadRegistry(c.pre.files, registryPath)

freshRegistry(F, c, registryPath) == loadRegistry(F, registryPath)

\* line 273: pullResult.exitCode === 0.
pullOk(outcome) == exitCodeZero(outcome)

\* lines 269 and 291-297: the try/catch lies inside the loop body, so after
\* any outcome of the pull the loop goes on with the next resource.
\* Variant: the try/catch lies around the loop, so a throw ends the batch.
afterPull_abortOnThrow(c, outcome, D) ==
    IF outcome = "throw"
    THEN Finish(c, [Respond("report") EXCEPT !.lines = c.results])
    ELSE updateScan(c, D)

afterPull(c, outcome, D) == updateScan(c, D)

\* lines 269-298: the pull returns; on exit status 0 the timestamp is
\* written; then the loop goes on.
UpdatePullReturn(p, outcome, now) ==
    LET c == Returned(calls[p], outcome)
        r == c.resources[c.i]
        registryPath == touchRegistryPath(r)
        registry == freshRegistry(files, c, registryPath)
        found == registryHas(registry, r.name)
        wrote == pullOk(outcome) /\ found
        line == IF pullOk(outcome)
                THEN resultLine(r.name, "Pulled")
                ELSE resultLine(r.name, "Error")
        next == [c EXCEPT !.results = Append(@, line), !.i = @ + 1,
                          !.pc = "running",
                          !.saved = IF wrote THEN Append(@, registryPath)
                                    ELSE @,
                          !.stamped = IF wrote
                                      THEN Append(@, [name |-> r.name, at |-> now])
                                      ELSE @]
    IN  /\ c.pc = "pull" /\ c.action = "update"
        /\ IF wrote
           THEN /\ files' = saveRegistryFiles(files, registryPath,
                                touchRegistry(registry, r.name, now))
                /\ dirs' = saveRegistryDirs(dirs, registryPath)
                /\ clock' = now
           ELSE UNCHANGED <<files, dirs, clock>>
        /\ calls' = [calls EXCEPT ![p] = afterPull(next, outcome, dirs')]

\* ---------------------------------------------------------------- info
\* lines 301-344.
InfoStart(p, name) ==
    LET c == NewCall("info", name, Undefined, Undefined, Undefined, FALSE)
        resource == findResource(files, c.name)
        exists == getResourcePath(resource) \in dirs
        info == [Respond("info") EXCEPT !.resource = resource,
                                        !.scope = resource.scope]
    IN  /\ Quiet(p)
        /\ calls' = [calls EXCEPT ![p] =
                IF c.name = Undefined THEN Finish(c, Respond("usage"))
                ELSE IF resource = NoResource
                THEN Finish(c, Respond("notFound"))
                ELSE IF exists
                THEN [c EXCEPT !.pc = "stats", !.response = info]
                ELSE Finish(c, [info EXCEPT !.stats = "NOT CLONED"])]
        /\ UNCHANGED <<files, dirs, clock>>

\* lines 324-343: du / find / git log; a failure only drops the stats.
InfoStatsReturn(p, known) ==
    LET c == calls[p]
    IN  /\ c.pc = "stats" /\ c.action = "info"
        /\ calls' = [calls EXCEPT ![p] =
                Finish(c, [c.response EXCEPT
                               !.stats = IF known THEN "known" ELSE "unknown"])]
        /\ UNCHANGED <<files, dirs, clock>>

\* ---------------------------------------------------------------- restore
\* lines 357-372 and 396: the loop runs without suspension over resources
\* already cloned, up to the next clone or to the end of the list. The value
\* is the invocation and the directories after ensureDir.
\* line 361: fs.existsSync(repoPath) on the resource's own path.
\* Variant: the test is left out, so every resource is cloned again.
alreadyCloned_never(r, D) == FALSE

alreadyCloned(r, D) == getResourcePath(r) \in D

\* line 371: git clone --depth 1 --branch ${r.branch} ${r.url} ${repoPath},
\* all three taken from the resolved resource r.
\* Variant: url and branch are the arguments of the call.
restoreClone_fromArgs(c, r) == CloneCall(c.branch, c.url, getResourcePath(r))

restoreClone(c, r) == CloneCall(r.branch, r.url, getResourcePath(r))

RECURSIVE restoreScan(_, _)
restoreScan(c, D) ==
    IF c.i > Len(c.resources)
    THEN [call |-> Finish(c, [Respond("report") EXCEPT !.lines = c.results]),
          dirs |-> D]
    ELSE IF alreadyCloned(c.resources[c.i], D)
    THEN restoreScan([c EXCEPT
                        !.results = Append(@, resultLine(c.resources[c.i].name,
                                                         "Already cloned")),
                        !.i = @ + 1], D)
    ELSE [call |-> [c EXCEPT !.pc = "clone",
                       !.provider = Append(@,
                           restoreClone(c, c.resources[c.i]))],
          dirs |-> ensureDir(D, reposDirOf(c.resources[c.i].scope))]

\* lines 346-372. url and branch are arguments of every call of the tool
\* (lines 123-130); restore receives them like any other action.
RestoreStart(p, name, inp) ==
    LET c0 == NewCall("restore", name, inp.url, inp.branch, Undefined, FALSE)
        c == [c0 EXCEPT !.resources = targets(files, c0.name)]
        scan == restoreScan(c, dirs)
    IN  /\ Quiet(p)
        /\ IF Len(c.resources) = 0
           THEN /\ calls' = [calls EXCEPT ![p] =
                        Finish(c, Respond(IF c.name # Undefined
                                          THEN "notFound"
                                          ELSE "nothingToRestore"))]
                /\ dirs' = dirs
           ELSE /\ calls' = [calls EXCEPT ![p] = scan.call]
                /\ dirs' = scan.dirs
        /\ UNCHANGED <<files, clock>>

\* line 374: cloneResult.exitCode === 0.
\* Variant: the exit status is not looked at; whatever returns is a success.
restoreOk_unlessThrow(outcome) == outcome # "throw"

restoreOk(outcome) == exitCodeZero(outcome)

\* lines 370 and 389-395: the try/catch lies inside the loop body, so after
\* any outcome of the clone the loop goes on with the next resource.
afterClone(c, outcome, D) == restoreScan(c, D)

\* lines 370-396: the clone returns; on exit status 0 the working copy is
\* there and the timestamp is written; then the loop goes on.
RestoreCloneReturn(p, outcome, now) ==
    LET c == Returned(calls[p], outcome)
        r == c.resources[c.i]
        repoPath == getResourcePath(r)
        registryPath == touchRegistryPath(r)
        registry == freshRegistry(files, c, registryPath)
        found == registryHas(registry, r.name)
        wrote == restoreOk(outcome) /\ found
        cloned == IF exitCodeZero(outcome) THEN dirs \cup {repoPath} ELSE dirs
        line == IF restoreOk(outcome)
                THEN resultLine(r.name, "Restored")
                ELSE resultLine(r.name, "Error")
        next == [c EXCEPT !.results = Append(@, line), !.i = @ + 1,
                          !.pc = "running",
                          !.saved = IF wrote THEN Append(@, registryPath)
                                    ELSE @,
                          !.stamped = IF wrote
                                      THEN Append(@, [name |-> r.name, at |-> now])
                                      ELSE @]
        scan == afterClone(next, outcome,
                    IF wrote THEN saveRegistryDirs(cloned, registryPath)
                    ELSE cloned)
    IN  /\ c.pc = "clone" /\ c.action = "restore"
        /\ IF wrote
           THEN /\ files' = saveRegistryFiles(files, registryPath,
                                touchRegistry(registry, r.name, now))
                /\ clock' = now
           ELSE UNCHANGED <<files, clock>>
        /\ dirs' = scan.dirs
        /\ calls' = [calls EXCEPT ![p] = scan.call]

\* ---------------------------------------------------------------- search
\* resource_search.execute (lines 423-472). The query and the include pattern
\* only go into the grep command line; what the grep gives back is one of
\* the outcomes below.
GrepCall(repoPath) ==
    [cmd |-> "grep", branch |-> Undefined, url |-> Undefined, path |-> repoPath,
     outcome |-> "pending"]
\* grep has written matching lines, has written nothing, or the call threw.
GrepOutcomes == {"output", "silent", "throw"}

\* lines 426-428.
searchTargets(F, name) ==
    IF name # Undefined
    THEN SelectSeq(<<findResource(F, name)>>, LAMBDA r : r # NoResource)
    ELSE getMergedResources(F)

\* lines 440-442: !fs.existsSync(repoPath) -> continue.
\* Variant: the existence check is missing.
searchSkips_never(r, D) == FALSE

searchSkips(r, D) == getResourcePath(r) \notin D

\* lines 437-447 and 465-471: the loop runs without suspension over the
\* resources that are not on disk, up to the next grep or to the end.
RECURSIVE searchScan(_, _)
searchScan(c, D) ==
    IF c.i > Len(c.resources)
    THEN IF Len(c.results) = 0
         THEN Finish(c, Respond("noMatches"))
         ELSE Finish(c, [Respond("searchResults") EXCEPT !.lines = c.results])
    ELSE IF searchSkips(c.resources[c.i], D)
    THEN searchScan([c EXCEPT !.i = @ + 1], D)
    ELSE [c EXCEPT !.pc = "grep",
                   !.provider = Append(@,
                       GrepCall(getResourcePath(c.resources[c.i])))]

\* lines 423-447.
SearchStart(p, name) ==
    LET c0 == NewCall("search", name, Undefined, Undefined, Undefined, FALSE)
        c == [c0 EXCEPT !.resources = searchTargets(files, c0.name)]
    IN  /\ Quiet(p)
        /\ calls' = [calls EXCEPT ![p] =
                IF Len(c.resources) = 0
                THEN Finish(c, Respond(IF c.name # Undefined
                                       THEN "notFound"
                                       ELSE "noResources"))
                ELSE searchScan(c, dirs)]
        /\ UNCHANGED <<files, dirs, clock>>

\* lines 447-463: the grep returns; non-empty output becomes the section of
\* this resource, empty output and a throw leave no trace.
SearchGrepReturn(p, outcome) ==
    LET c == Returned(calls[p], outcome)
        r == c.resources[c.i]
        next == [c EXCEPT !.results = IF outcome = "output"
                                      THEN Append(@, resultLine(r.name, "section"))
                                      ELSE @,
                          !.i = @ + 1,
                          !.pc = "running"]
    IN  /\ c.pc = "grep" /\ c.action = "search"
        /\ calls' = [calls EXCEPT ![p] = searchScan(next, dirs)]
        /\ UNCHANGED <<files, dirs, clock>>

\* ------------------------------------------------- out-of-band changes
\* Between two operations the working copy of a resource may be deleted by
\* hand (the "not cloned" condition of lines 238, 262, 322, 361).
ExtRemoveDir(name, scope) ==
    /\ AllQuiet
    /\ pathJoin(reposDirOf(scope), name) \in dirs
    /\ dirs' = dirs \ {pathJoin(reposDirOf(scope), name)}
    /\ UNCHANGED <<files, clock, calls>>

\* Records a synced configuration brings into a registry file (line 97): a
\* record as the global registry of another machine holds it.
SyncedRecords ==
    {[name |-> "svelte", url |-> "u3", branch |-> "next", notes |-> "synced",
      scope |-> "global", clonedAt |-> 0, updatedAt |-> 0]}
\* The same record written by hand, declaring no scope (the file is read
\* with no validation: line 46).
UndeclaredRecords == {[rec EXCEPT !.scope = Undefined] : rec \in SyncedRecords}

\* Between two operations a registry file may receive a record from a synced
\* configuration; the record replaces the file's record of that name, if any.
ExtSyncRecord(path, rec) ==
    LET registry == loadRegistry(files, path)
        others == SelectSeq(registry.resources, LAMBDA r : r.name # rec.name)
    IN  /\ AllQuiet
        /\ files' = [files EXCEPT ![path] =
                JSONstringify([registry EXCEPT !.resources = Append(others, rec)])]
        /\ dirs' = ensureDir(dirs, pathDirname(path))
        /\ UNCHANGED <<clock, calls>>

\* Between two operations a registry file may be left with a text that
\* JSON.parse rejects (a truncated write, a merge conflict; lines 45-49).
ExtCorruptRegistry(path) ==
    /\ AllQuiet
    /\ files[path] # GarbageText
    /\ files' = [files EXCEPT ![path] = GarbageText]
    /\ dirs' = ensureDir(dirs, pathDirname(path))
    /\ UNCHANGED <<clock, calls>>

Scopes == {"global", "project"}

\* ------------------------------------------------------- specifications
\* One invocation at a time (spec section 5), by one session.
Operation(p) ==
    \/ \E inp \in AddInputs, project \in ProjectArgs : AddStart(p, inp, project)
    \/ \E outcome \in Outcomes, now \in NowChoices : AddCloneReturn(p, outcome, now)
    \/ \E known \in BOOLEAN : AddStatsReturn(p, known)
    \/ \E name \in NameArgs, project \in ProjectArgs : Remove(p, name, project)
    \/ List(p)
    \/ \E name \in NameArgs : UpdateStart(p, name)
    \/ \E outcome \in Outcomes, now \in NowChoices : UpdatePullReturn(p, outcome, now)
    \/ \E name \in NameArgs : InfoStart(p, name)
    \/ \E known \in BOOLEAN : InfoStatsReturn(p, known)
    \/ \E name \in NameArgs, inp \in RestoreInputs : RestoreStart(p, name, inp)
    \/ \E outcome \in Outcomes, now \in NowChoices : RestoreCloneReturn(p, outcome, now)
    \/ Deliver(p)

Search(p) ==
    \/ \E name \in NameArgs : SearchStart(p, name)
    \/ \E outcome \in GrepOutcomes : SearchGrepReturn(p, outcome)

DeleteWorkingCopy == \E name \in Names, scope \in Scopes : ExtRemoveDir(name, scope)
SyncConfig ==
    \E path \in RegistryPaths, rec \in SyncedRecords : ExtSyncRecord(path, rec)

\* The operations of one session, from empty registries, with working copies
\* deleted out of band.
Next == Operation("p1") \/ Search("p1") \/ DeleteWorkingCopy
Spec == Init /\ [][Next]_vars

\* The same, with registry files also changed out of band.
NextEnv == Operation("p1") \/ Search("p1") \/ DeleteWorkingCopy \/ SyncConfig
SpecEnv == Init /\ [][NextEnv]_vars

\* The operations that read the merged view or change the set of records,
\* with records that declare another scope or none brought into either
\* registry file out of band.
Registering(p) ==
    \/ \E inp \in AddInputs, project \in ProjectArgs : AddStart(p, inp, project)
    \/ \E outcome \in Outcomes, now \in NowChoices : AddCloneReturn(p, outcome, now)
    \/ \E known \in BOOLEAN : AddStatsReturn(p, known)
    \/ \E name \in NameArgs, project \in ProjectArgs : Remove(p, name, project)
    \/ List(p)
    \/ \E name \in NameArgs : InfoStart(p, name)
    \/ \E known \in BOOLEAN : InfoStatsReturn(p, known)
    \/ Deliver(p)
SyncAny ==
    \E path \in RegistryPaths, rec \in SyncedRecords \cup UndeclaredRecords :
        ExtSyncRecord(path, rec)
NextTags == Registering("p1") \/ SyncAny
SpecTags == Init /\ [][NextTags]_vars

\* Two sessions in two operating-system processes of the same user, each
\* adding resources to the global scope.
WriterInputs == {inp \in AddInputs : inp.name # Undefined /\ inp.url # Undefined}
Writer(p) ==
    \/ \E inp \in WriterInputs : AddStart(p, inp, FALSE)
    \/ \E outcome \in Outcomes : AddLoad(p, outcome)
    \/ \E now \in NowChoices : AddSave(p, now)
    \/ \E known \in BOOLEAN : AddStatsReturn(p, known)
    \/ Deliver(p)
NextProcesses == \E p \in Procs : Writer(p)
SpecProcesses == Init /\ [][NextProcesses]_vars

\* The operations that write, from empty registries and an empty disk, with
\* nothing changed out of band. No working copy goes missing, so restore
\* finds every resource cloned and its clone never starts.
Mutations(p) ==
    \/ \E inp \in AddInputs, project \in ProjectArgs : AddStart(p, inp, project)
    \/ \E outcome \in Outcomes, now \in NowChoices : AddCloneReturn(p, outcome, now)
    \/ \E known \in BOOLEAN : AddStatsReturn(p, known)
    \/ \E name \in NameArgs, project \in ProjectArgs : Remove(p, name, project)
    \/ \E name \in NameArgs : UpdateStart(p, name)
    \/ \E outcome \in Outcomes, now \in NowChoices : UpdatePullReturn(p, outcome, now)
    \/ \E name \in NameArgs, inp \in RestoreInputs : RestoreStart(p, name, inp)
    \/ Deliver(p)
NextApi == Mutations("p1")
SpecApi == Init /\ [][NextApi]_vars

\* Two add invocations of one process: execute is async, a second call may
\* start while the first awaits its clone (line 154); between two awaits an
\* invocation runs without interruption.
Adds(p) ==
    \/ \E inp \in WriterInputs, project \in ProjectArgs : AddStart(p, inp, project)
    \/ \E outcome \in Outcomes, now \in NowChoices : AddCloneReturn(p, outcome, now)
    \/ \E known \in BOOLEAN : AddStatsReturn(p, known)
    \/ Deliver(p)
NextInterleaved == \E p \in Procs : Adds(p)
SpecInterleaved == Init /\ [][NextInterleaved]_vars

\* The operations of one session, with registry files also corrupted out of
\* band.
CorruptRegistry == \E path \in RegistryPaths : ExtCorruptRegistry(path)
NextCorrupt ==
    Operation("p1") \/ Search("p1") \/ DeleteWorkingCopy \/ CorruptRegistry
SpecCorrupt == Init /\ [][NextCorrupt]_vars

\* Adds of names with a separator, with working copies deleted out of band.
AddAliased(p) ==
    \/ \E inp \in AliasInputs, project \in ProjectArgs : AddStart(p, inp, project)
    \/ \E outcome \in Outcomes, now \in NowChoices : AddCloneReturn(p, outcome, now)
    \/ \E known \in BOOLEAN : AddStatsReturn(p, known)
    \/ List(p)
    \/ Deliver(p)
NextAlias == AddAliased("p1") \/ DeleteWorkingCopy
SpecAlias == Init /\ [][NextAlias]_vars

\* The provider calls of resource_manage return or throw.
ProviderReturns(p) ==
    \/ \E outcome \in Outcomes, now \in NowChoices : AddCloneReturn(p, outcome, now)
    \/ \E outcome \in Outcomes, now \in NowChoices : UpdatePullReturn(p, outcome, now)
    \/ \E outcome \in Outcomes, now \in NowChoices : RestoreCloneReturn(p, outcome, now)
    \/ \E known \in BOOLEAN : AddStatsReturn(p, known)
    \/ \E known \in BOOLEAN : InfoStatsReturn(p, known)
\* The operations that call a provider (add, update, info, restore), with
\* working copies deleted out of band, their provider calls returning or
\* throwing.
Batches(p) ==
    \/ \E inp \in AddInputs, project \in ProjectArgs : AddStart(p, inp, project)
    \/ \E name \in NameArgs : UpdateStart(p, name)
    \/ \E name \in NameArgs : InfoStart(p, name)
    \/ \E name \in NameArgs, inp \in RestoreInputs : RestoreStart(p, name, inp)
    \/ ProviderReturns(p)
    \/ Deliver(p)
NextBatches == Batches("p1") \/ DeleteWorkingCopy
SpecFair == Init /\ [][NextBatches]_vars /\ WF_vars(ProviderReturns("p1"))

\* ------------------------------------------------------------ properties
\* The records named n that a registry file holds, read from the file itself.
recordsNamed(F, path, n) ==
    SelectSeq(loadRegistry(F, path).resources, LAMBDA r : r.name = n)
registered(F, n) == \E path \in RegistryPaths : recordsNamed(F, path, n) # <<>>
otherRegistry(path) ==
    IF path = GLOBAL_REGISTRY THEN PROJECT_REGISTRY ELSE GLOBAL_REGISTRY
scopeOfRegistry(path) == IF path = PROJECT_REGISTRY THEN "project" ELSE "global"
workingCopy(scope, n) ==
    IF scope = "project"
    THEN <<"ctx.directory", ".opencode/resources", "repos", n>>
    ELSE <<"homedir", ".config/opencode/resources", "repos", n>>
okCalls(c) == {j \in 1..Len(c.provider) : c.provider[j].outcome = "ok"}

\* C1: for every name that has a record in both registries, findResource
\* gives the project registry's record tagged scope = project, all fields the
\* project record's, whatever the timestamps; info reports that record.
C1_MergePrecedence ==
    \A n \in Names :
        LET g == recordsNamed(files, GLOBAL_REGISTRY, n)
            pr == recordsNamed(files, PROJECT_REGISTRY, n)
            expected == [pr[Len(pr)] EXCEPT !.scope = "project"]
        IN  (g # <<>> /\ pr # <<>>) =>
                /\ findResource(files, n) = expected
                /\ \A p \in Procs :
                       (calls[p].action = "info" /\ calls[p].pc = "done"
                            /\ calls[p].name = n) =>
                           /\ calls[p].response.kind = "info"
                           /\ calls[p].response.resource = expected
                           /\ calls[p].response.scope = "project"

\* C1 witness: info has answered for a name whose global record is newer than
\* and different from its project record.
C1_Witness ==
    \E p \in Procs, n \in Names :
        LET g == recordsNamed(files, GLOBAL_REGISTRY, n)
            pr == recordsNamed(files, PROJECT_REGISTRY, n)
        IN  /\ g # <<>> /\ pr # <<>>
            /\ g[1].url # pr[1].url
            /\ g[1].updatedAt > pr[1].updatedAt
            /\ calls[p].action = "info" /\ calls[p].pc = "done"
            /\ calls[p].name = n
            /\ calls[p].response.resource.url = pr[1].url

\* C2: an add of a name that is registered (in either registry) ends at once
\* with the duplicate response naming the scope that holds it, whatever its
\* target scope, calls no provider and writes no registry.
C2_DuplicateAddRejected ==
    \A p \in Procs :
        LET c == calls[p]
        IN  (c.action = "add" /\ c.name # Undefined /\ c.url # Undefined
                /\ registered(c.pre.files, c.name)) =>
                /\ c.pc = "done"
                /\ c.response.kind = "duplicate"
                /\ recordsNamed(c.pre.files,
                                registryPathOf(c.response.scope), c.name) # <<>>
                /\ c.provider = <<>>
                /\ c.saved = <<>>
                /\ files = c.pre.files

\* C2 witness: an add into the project scope was rejected for a name the
\* global registry holds.
C2_Witness ==
    \E p \in Procs :
        /\ calls[p].action = "add" /\ calls[p].pc = "done"
        /\ calls[p].response.kind = "duplicate"
        /\ calls[p].project
        /\ calls[p].response.scope = "global"
        /\ recordsNamed(files, GLOBAL_REGISTRY, calls[p].name) # <<>>

\* C3: no name occurs twice in one registry, and no name occurs in both.
C3_NamesUnique ==
    \A n \in Names :
        Len(recordsNamed(files, GLOBAL_REGISTRY, n))
            + Len(recordsNamed(files, PROJECT_REGISTRY, n)) <= 1

\* C3 witness: both registries hold a record and a further add was rejected.
C3_Witness ==
    \E p \in Procs :
        /\ loadRegistry(files, GLOBAL_REGISTRY).resources # <<>>
        /\ loadRegistry(files, PROJECT_REGISTRY).resources # <<>>
        /\ calls[p].action = "add" /\ calls[p].pc = "done"
        /\ calls[p].response.kind = "duplicate"

\* C4: when the clone of an add returns a non-zero status or throws, add ends
\* with the clone error, no registry is written, and the name is still not
\* found.
C4_FailedCloneWritesNothing ==
    \A p \in Procs :
        LET c == calls[p]
        IN  (c.action = "add" /\ c.provider # <<>>
                /\ c.provider[1].outcome \in {"nonzero", "throw"}) =>
                /\ c.pc = "done"
                /\ c.response.kind = "cloneError"
                /\ c.saved = <<>>
                /\ files = c.pre.files
                /\ ~registered(files, c.name)
                /\ findResource(files, c.name) = NoResource

\* C4 witness: a clone ended with a non-zero status while another resource
\* was registered.
C4_Witness ==
    \E p \in Procs :
        /\ calls[p].action = "add" /\ calls[p].pc = "done"
        /\ calls[p].provider # <<>>
        /\ calls[p].provider[1].outcome = "nonzero"
        /\ getMergedResources(files) # <<>>

\* C5: when the name is not registered and the clone succeeds, add appends
\* exactly one record to the target scope's registry (global unless project),
\* with the given name and url, branch (default main), notes (default empty),
\* clonedAt = updatedAt; the earlier records stay, the other registry is not
\* touched, and findResource then gives the new record in the target scope.
C5_AddSuccess ==
    \A p \in Procs :
        LET c == calls[p]
            scope == IF c.project THEN "project" ELSE "global"
            target == IF c.project THEN PROJECT_REGISTRY ELSE GLOBAL_REGISTRY
            before == loadRegistry(c.pre.files, target).resources
            after == loadRegistry(files, target).resources
            rec == after[Len(after)]
        IN  (c.action = "add" /\ c.provider # <<>>
                /\ c.provider[1].outcome = "ok") =>
                /\ ~registered(c.pre.files, c.name)
                /\ c.provider = <<[cmd |-> "clone", branch |-> rec.branch,
                                   url |-> c.url,
                                   path |-> workingCopy(scope, c.name),
                                   outcome |-> "ok"]>>
                /\ c.pc \in {"stats", "done"}
                /\ (c.pc = "done" =>
                        c.response.kind = "added" /\ c.response.scope = scope)
                /\ Len(after) = Len(before) + 1
                /\ SubSeq(after, 1, Len(before)) = before
                /\ rec.name = c.name
                /\ rec.url = c.url
                /\ rec.branch = (IF c.given.branch = Undefined THEN "main"
                                 ELSE c.given.branch)
                /\ rec.notes = (IF c.given.notes = Undefined THEN ""
                                ELSE c.given.notes)
                /\ rec.clonedAt = rec.updatedAt
                /\ rec.scope = scope
                /\ files[otherRegistry(target)] = c.pre.files[otherRegistry(target)]
                /\ findResource(files, c.name) = rec
                /\ workingCopy(scope, c.name) \in dirs

\* C5 witness: an add into the project scope, branch and notes left out, has
\* succeeded on a registry that already held a record.
C5_Witness ==
    \E p \in Procs :
        /\ calls[p].action = "add" /\ calls[p].pc = "done"
        /\ calls[p].response.kind = "added"
        /\ calls[p].project
        /\ calls[p].given.branch = Undefined
        /\ Len(loadRegistry(files, PROJECT_REGISTRY).resources) = 2

\* C6: after a remove has succeeded, the working copy of the removed resource
\* is not on disk and the name is not found; when it was the only resource,
\* the merged view is empty; and list answers with the empty-state message
\* exactly when the merged view is empty.
C6_RemovePostcondition ==
    \A p \in Procs :
        LET c == calls[p]
        IN  /\ (c.action = "remove" /\ c.pc = "done"
                    /\ c.response.kind = "removed") =>
                   /\ registered(c.pre.files, c.name)
                   /\ workingCopy(c.response.resource.scope, c.name) \notin dirs
                   /\ getResourcePath(c.response.resource) \notin dirs
                   /\ ~registered(files, c.name)
                   /\ findResource(files, c.name) = NoResource
                   /\ (Len(getMergedResources(c.pre.files)) = 1 =>
                           getMergedResources(files) = <<>>)
            /\ (c.action = "remove" /\ c.name # Undefined
                    /\ registered(c.pre.files, c.name)) =>
                   (c.pc = "done" /\ c.response.kind = "removed")
            /\ (c.action = "list" /\ c.pc = "done") =>
                   (c.response.kind = "empty" <=>
                        \A n \in Names : ~registered(files, n))

\* C6 witness: the only resource, whose working copy was on disk, has been
\* removed.
C6_Witness ==
    \E p \in Procs :
        /\ calls[p].action = "remove" /\ calls[p].pc = "done"
        /\ calls[p].response.kind = "removed"
        /\ workingCopy(calls[p].response.resource.scope, calls[p].name)
               \in calls[p].pre.dirs
        /\ Len(getMergedResources(calls[p].pre.files)) = 1

\* C7: remove, update, info and restore of a name that no registry holds end
\* at once with the not-found response, call no provider and leave the
\* registry files and the directories as they were.
C7_UnknownNameNoEffect ==
    \A p \in Procs :
        LET c == calls[p]
        IN  (c.action \in {"remove", "update", "info", "restore"}
                /\ c.name # Undefined /\ ~registered(c.pre.files, c.name)) =>
                /\ c.pc = "done"
                /\ c.response.kind = "notFound"
                /\ c.provider = <<>>
                /\ c.saved = <<>>
                /\ files = c.pre.files
                /\ dirs = c.pre.dirs

\* C7 witness: update of an unknown name has answered while another resource
\* was registered and cloned.
C7_Witness ==
    \E p \in Procs, n \in Names :
        /\ calls[p].action = "update" /\ calls[p].pc = "done"
        /\ calls[p].name # Undefined /\ calls[p].name # n
        /\ ~registered(files, calls[p].name)
        /\ registered(files, n)
        /\ \E scope \in Scopes : workingCopy(scope, n) \in dirs

\* C8: for every resource an update targets whose working copy is absent, the
\* report says "Not cloned", no pull is called on its path, and its record is
\* as before; when no targeted resource is cloned no registry file is written.
C8_UpdateSkipsNotCloned ==
    \A p \in Procs :
        LET c == calls[p]
            absent(k) == workingCopy(c.resources[k].scope, c.resources[k].name)
                             \notin c.pre.dirs
        IN  (c.action = "update" /\ c.pc = "done"
                /\ c.response.kind = "report") =>
                /\ \A k \in 1..Len(c.resources) :
                       absent(k) =>
                           /\ \A j \in 1..Len(c.provider) :
                                  c.provider[j].path #
                                      workingCopy(c.resources[k].scope,
                                                  c.resources[k].name)
                           /\ k \in 1..Len(c.response.lines)
                           /\ c.response.lines[k] =
                                  [name |-> c.resources[k].name,
                                   text |-> "Not cloned"]
                           /\ recordsNamed(files,
                                  registryPathOf(c.resources[k].scope),
                                  c.resources[k].name)
                                = recordsNamed(c.pre.files,
                                      registryPathOf(c.resources[k].scope),
                                      c.resources[k].name)
                /\ (\A k \in 1..Len(c.resources) : absent(k)) =>
                       (c.provider = <<>> /\ c.saved = <<>>
                            /\ files = c.pre.files)

\* C8 witness: an update of all resources skipped the first, which was not
\* cloned, and pulled the second and wrote its timestamp.
C8_Witness ==
    \E p \in Procs :
        LET c == calls[p]
        IN  /\ c.action = "update" /\ c.pc = "done" /\ c.name = Undefined
            /\ Len(c.resources) = 2
            /\ workingCopy(c.resources[1].scope, c.resources[1].name)
                   \notin c.pre.dirs
            /\ c.response.lines[1].text = "Not cloned"
            /\ c.response.lines[2].text = "Pulled"
            /\ c.saved # <<>>
            /\ files # c.pre.files

\* C9: an update or restore changes a record only when the provider call for
\* that resource has returned with exit status 0, and then only its
\* updatedAt; with no such call returned the registry files are as before,
\* and there are never more saves than calls returned with status 0.
C9_TimestampOnlyAfterSuccess ==
    \A p \in Procs :
        LET c == calls[p]
        IN  (c.action \in {"update", "restore"}) =>
                /\ \A path \in RegistryPaths :
                       LET before == loadRegistry(c.pre.files, path).resources
                           after == loadRegistry(files, path).resources
                       IN  /\ Len(after) = Len(before)
                           /\ \A k \in 1..Len(after) :
                                  after[k] # before[k] =>
                                      /\ after[k] = [before[k] EXCEPT
                                             !.updatedAt = after[k].updatedAt]
                                      /\ \E j \in okCalls(c) :
                                             c.provider[j].path =
                                                 workingCopy(scopeOfRegistry(path),
                                                             after[k].name)
                /\ (okCalls(c) = {} => files = c.pre.files)
                /\ Len(c.saved) <= Cardinality(okCalls(c))

\* C9 witness: a restore of all resources had one clone throw and one clone
\* succeed, and only the record of the second has a new updatedAt.
C9_Witness ==
    \E p \in Procs :
        LET c == calls[p]
        IN  /\ c.action = "restore" /\ c.pc = "done" /\ c.name = Undefined
            /\ Len(c.provider) = 2
            /\ c.provider[1].outcome = "throw"
            /\ c.provider[2].outcome = "ok"
            /\ findResource(files, c.resources[1].name).updatedAt
                   = findResource(c.pre.files, c.resources[1].name).updatedAt
            /\ findResource(files, c.resources[2].name).updatedAt
                   > findResource(c.pre.files, c.resources[2].name).updatedAt

\* The outcome line that resource k of a batch must have got: by the state of
\* its working copy before the batch and by the outcome of its provider call.
batchLineOk(c, k) ==
    LET r == c.resources[k]
        path == workingCopy(r.scope, r.name)
        onDisk == path \in c.pre.dirs
        mine == {j \in 1..Len(c.provider) : c.provider[j].path = path}
        text == c.response.lines[k].text
    IN  /\ c.response.lines[k].name = r.name
        /\ Cardinality(mine) <= 1
        /\ IF (c.action = "update") = onDisk
           THEN /\ Cardinality(mine) = 1
                /\ \A j \in mine :
                       /\ c.provider[j].cmd =
                              (IF c.action = "update" THEN "pull" ELSE "clone")
                       /\ c.provider[j].outcome \in Outcomes
                       /\ (c.provider[j].outcome = "ok") =
                              (text = (IF c.action = "update" THEN "Pulled"
                                       ELSE "Restored"))
                       /\ (c.provider[j].outcome # "ok") = (text = "Error")
           ELSE /\ mine = {}
                /\ text = (IF c.action = "update" THEN "Not cloned"
                           ELSE "Already cloned")

BatchInFlight(p) ==
    /\ calls[p].action \in {"update", "restore"}
    /\ calls[p].name = Undefined
    /\ calls[p].pc \in {"pull", "clone"}

BatchReported(p) ==
    /\ calls[p].action \in {"update", "restore"}
    /\ calls[p].name = Undefined
    /\ calls[p].pc = "done"
    /\ calls[p].response.kind = "report"
    /\ Len(calls[p].response.lines) = Len(calls[p].resources)

C10_Report ==
    \A p \in Procs :
        LET c == calls[p]
            merged == getMergedResources(c.pre.files)
        IN  (c.action \in {"update", "restore"} /\ c.name = Undefined
                /\ merged # <<>>) =>
                /\ c.resources = merged
                /\ c.pc \in {"pull", "clone", "done"}
                /\ c.pc # "done" =>
                       (c.i <= Len(merged) /\ Len(c.results) = c.i - 1)
                /\ c.pc = "done" =>
                       /\ c.response.kind = "report"
                       /\ Len(c.response.lines) = Len(merged)
                       /\ \A k \in 1..Len(merged) : batchLineOk(c, k)

\* C10: an update or restore of all n resources of the merged view, every
\* provider call returning or throwing, ends with a report of exactly n lines,
\* one per resource in merged-view order, each line the outcome of that
\* resource; a failed or throwing call on one resource does not keep the
\* later ones from being processed.
C10_BatchCompletes ==
    /\ []C10_Report
    /\ \A p \in Procs : BatchInFlight(p) ~> BatchReported(p)

\* C10 witness: an update of two resources has reported both, the pull of the
\* first having thrown and the pull of the second having succeeded.
C10_Witness ==
    \E p \in Procs :
        LET c == calls[p]
        IN  /\ c.action = "update" /\ c.name = Undefined /\ c.pc = "done"
            /\ Len(c.response.lines) = 2
            /\ Len(c.provider) = 2
            /\ c.provider[1].outcome = "throw"
            /\ c.response.lines[1].text = "Error"
            /\ c.provider[2].outcome = "ok"
            /\ c.response.lines[2].text = "Pulled"

\* The scope the merged view resolves name n to: the project registry's
\* record when it has one, the global registry's otherwise.
owningScope(F, n) ==
    IF recordsNamed(F, PROJECT_REGISTRY, n) # <<>> THEN "project" ELSE "global"
owningRecord(F, n) ==
    LET rs == recordsNamed(F, registryPathOf(owningScope(F, n)), n)
    IN  rs[Len(rs)]

\* C11: restore never calls the clone provider for a path that was on disk
\* when it started; restore(name) of a registered resource whose working copy
\* is on disk answers "Already cloned" for it, calls no provider and leaves
\* both registry files and the disk as they were, so that the same call made
\* again starts from the same state and gives the same report.
C11_RestoreIdempotent ==
    \A p \in Procs :
        LET c == calls[p]
        IN  c.action = "restore" =>
                /\ \A j \in 1..Len(c.provider) :
                       c.provider[j].path \notin c.pre.dirs
                /\ (/\ c.pc = "done" /\ c.name # Undefined
                    /\ registered(c.pre.files, c.name)
                    /\ workingCopy(owningScope(c.pre.files, c.name), c.name)
                           \in c.pre.dirs) =>
                       /\ c.response.kind = "report"
                       /\ c.response.lines =
                              <<[name |-> c.name, text |-> "Already cloned"]>>
                       /\ c.provider = <<>>
                       /\ c.saved = <<>>
                       /\ files = c.pre.files
                       /\ dirs = c.pre.dirs

\* C11 witness: restore by name has answered "Already cloned" for a resource
\* whose working copy was on disk.
C11_Witness ==
    \E p \in Procs :
        LET c == calls[p]
        IN  /\ c.action = "restore" /\ c.pc = "done" /\ c.name # Undefined
            /\ registered(c.pre.files, c.name)
            /\ workingCopy(owningScope(c.pre.files, c.name), c.name)
                   \in c.pre.dirs
            /\ c.response.lines =
                   <<[name |-> c.name, text |-> "Already cloned"]>>

\* C12: every clone that restore starts takes url and branch from the
\* record the merged view resolves a registered name to, and the path from
\* that record's scope and name, whatever url and branch the call was given;
\* restore(name) of a registered resource whose working copy is missing
\* starts exactly that one clone, and once the clone has returned with exit
\* status 0 the working copy is on disk, the report says "Restored", the
\* record's updatedAt is the time of the write, written to the registry file
\* of the record's own scope, and the other registry file is as it was.
C12_RestoreMissingClone ==
    \A p \in Procs :
        LET c == calls[p]
            s == owningScope(c.pre.files, c.name)
            rec == owningRecord(c.pre.files, c.name)
            path == registryPathOf(s)
        IN  c.action = "restore" =>
                /\ \A j \in 1..Len(c.provider) :
                       \E n \in Names :
                           /\ registered(c.pre.files, n)
                           /\ c.provider[j].cmd = "clone"
                           /\ c.provider[j].url = owningRecord(c.pre.files, n).url
                           /\ c.provider[j].branch =
                                  owningRecord(c.pre.files, n).branch
                           /\ c.provider[j].path =
                                  workingCopy(owningScope(c.pre.files, n), n)
                /\ (/\ c.pc \in {"clone", "done"} /\ c.name # Undefined
                    /\ registered(c.pre.files, c.name)
                    /\ workingCopy(s, c.name) \notin c.pre.dirs) =>
                       /\ Len(c.provider) = 1
                       /\ c.provider[1].url = rec.url
                       /\ c.provider[1].branch = rec.branch
                       /\ c.provider[1].path = workingCopy(s, c.name)
                       /\ (c.pc = "done" /\ c.provider[1].outcome = "ok") =>
                              /\ workingCopy(s, c.name) \in dirs
                              /\ c.response.lines =
                                     <<[name |-> c.name, text |-> "Restored"]>>
                              /\ c.saved = <<path>>
                              /\ owningRecord(files, c.name) =
                                     [rec EXCEPT !.updatedAt = clock]
                              /\ clock >= rec.updatedAt
                              /\ files[otherRegistry(path)] =
                                     c.pre.files[otherRegistry(path)]

\* C12 witness: restore(name), called with a url and a branch of its own for
\* a registered resource whose working copy was missing, has cloned it with
\* exit status 0 and moved the record's updatedAt forward.
C12_Witness ==
    \E p \in Procs :
        LET c == calls[p]
            s == owningScope(c.pre.files, c.name)
        IN  /\ c.action = "restore" /\ c.pc = "done" /\ c.name # Undefined
            /\ c.url = "u9" /\ c.branch = "other"
            /\ registered(c.pre.files, c.name)
            /\ workingCopy(s, c.name) \notin c.pre.dirs
            /\ Len(c.provider) = 1 /\ c.provider[1].outcome = "ok"
            /\ owningRecord(files, c.name).updatedAt >
                   owningRecord(c.pre.files, c.name).updatedAt

\* C13: resource_search never starts a grep on a path that was not on disk
\* when it started, and no section of its answer belongs to a resource whose
\* working copy was missing; a search by name for a registered resource
\* whose working copy is missing answers "No matches found" (neither "not
\* found" nor an error) without any grep.
C13_SearchSkipsAbsent ==
    \A p \in Procs :
        LET c == calls[p]
        IN  c.action = "search" =>
                /\ \A j \in 1..Len(c.provider) :
                       c.provider[j].path \in c.pre.dirs
                /\ \A k \in 1..Len(c.results) :
                       workingCopy(owningScope(c.pre.files, c.results[k].name),
                                   c.results[k].name) \in c.pre.dirs
                /\ (/\ c.pc = "done" /\ c.name # Undefined
                    /\ registered(c.pre.files, c.name)
                    /\ workingCopy(owningScope(c.pre.files, c.name), c.name)
                           \notin c.pre.dirs) =>
                       /\ c.response.kind = "noMatches"
                       /\ c.provider = <<>>
                /\ (/\ c.pc = "done" /\ c.name = Undefined
                    /\ \E n \in Names : registered(c.pre.files, n)) =>
                       /\ c.response.kind \in {"noMatches", "searchResults"}
                       /\ Len(c.provider) =
                              Cardinality({n \in Names :
                                  /\ registered(c.pre.files, n)
                                  /\ workingCopy(owningScope(c.pre.files, n), n)
                                         \in c.pre.dirs})

\* C13, all resources: a search of all resources has answered with a section for
\* the one resource on disk, while another registered resource had no
\* working copy and was not searched.
C13_WitnessAll ==
    \E p \in Procs :
        LET c == calls[p]
        IN  /\ c.action = "search" /\ c.pc = "done" /\ c.name = Undefined
            /\ \A n \in Names : registered(c.pre.files, n)
            /\ \E n \in Names :
                   workingCopy(owningScope(c.pre.files, n), n) \notin c.pre.dirs
            /\ c.response.kind = "searchResults"
            /\ Len(c.response.lines) = 1
            /\ Len(c.provider) = 1

\* C13 witness: a search by name for a registered resource without working
\* copy has answered "No matches found".
C13_WitnessByName ==
    \E p \in Procs :
        LET c == calls[p]
        IN  /\ c.action = "search" /\ c.pc = "done" /\ c.name # Undefined
            /\ registered(c.pre.files, c.name)
            /\ workingCopy(owningScope(c.pre.files, c.name), c.name)
                   \notin c.pre.dirs
            /\ c.response.kind = "noMatches"

\* A registry file that is absent or holds a text JSON.parse rejects.
unreadable(F, path) == ~F[path].exists \/ ~F[path].json

\* C14: loadRegistry gives {version: 1, resources: []} for a file that is
\* absent and for a file that cannot be parsed, and every operation treats
\* such a scope as empty: list shows only the other scope's records (or says
\* there are none), remove, update and restore of a name that only unreadable
\* files could hold answer "not found" and change nothing, update and restore
\* of all resources find nothing to do when both files are unreadable, and a
\* successful add into an unreadable scope leaves a version 1 registry with
\* exactly the new record.
C14_CorruptionTolerance ==
    /\ \A path \in RegistryPaths :
           unreadable(files, path) =>
               loadRegistry(files, path) = [version |-> 1, resources |-> <<>>]
    /\ \A p \in Procs :
           LET c == calls[p]
               F == c.pre.files
               bad == {path \in RegistryPaths : unreadable(F, path)}
               target == registryPathOf(IF c.project THEN "project" ELSE "global")
           IN  (c.pc = "done" /\ bad # {}) =>
                   /\ c.response.kind # "none"
                   /\ c.action = "list" =>
                          /\ (c.response.kind = "empty") =
                                 (\A path \in RegistryPaths \ bad :
                                      F[path].resources = <<>>)
                          /\ \A path \in RegistryPaths \ bad :
                                 Len(c.response.resources) <= Len(F[path].resources)
                   /\ (c.action \in {"remove", "update", "restore"}
                          /\ c.name # Undefined
                          /\ \A path \in RegistryPaths \ bad :
                                 \A k \in 1..Len(F[path].resources) :
                                     F[path].resources[k].name # c.name) =>
                          /\ c.response.kind = "notFound"
                          /\ files = F /\ dirs = c.pre.dirs
                          /\ c.provider = <<>>
                   /\ (c.action \in {"update", "restore"} /\ c.name = Undefined
                          /\ bad = RegistryPaths) =>
                          /\ c.response.kind \in
                                 {"nothingToUpdate", "nothingToRestore"}
                          /\ files = F
                   /\ (c.action = "add" /\ c.response.kind = "added"
                          /\ target \in bad) =>
                          /\ files[target].exists /\ files[target].json
                          /\ files[target].version = 1
                          /\ Len(files[target].resources) = 1
                          /\ files[target].resources[1].name = c.name

\* C14 witness: add has registered a resource in a scope whose registry file
\* held an unparseable text, and the file is a registry again.
C14_Witness ==
    \E p \in Procs :
        LET c == calls[p]
            target == registryPathOf(IF c.project THEN "project" ELSE "global")
        IN  /\ c.pc = "done" /\ c.action = "add" /\ c.response.kind = "added"
            /\ c.pre.files[target] = GarbageText
            /\ files[target].json
            /\ Len(files[target].resources) = 1

\* Well-formed registries to save: no record, one, two in either order, the
\* same record twice; version 1 and a later version.
SampleRecord(n, u, sc) ==
    [name |-> n, url |-> u, branch |-> "main", notes |-> "", scope |-> sc,
     clonedAt |-> 0, updatedAt |-> 1]
SampleRegistries ==
    LET a == SampleRecord("svelte", "u1", "global")
        b == SampleRecord("ghost", "u2", "project")
    IN  {[version |-> v, resources |-> rs] :
            v \in {1, 2}, rs \in {<<>>, <<a>>, <<a, b>>, <<b, a>>, <<a, a>>}}

C16_PathDeterminism ==
    /\ \A k1, k2 \in 1..Len(getMergedResources(files)) :
           LET r1 == getMergedResources(files)[k1]
               r2 == getMergedResources(files)[k2]
           IN  /\ (r1.scope = r2.scope /\ r1.name = r2.name) =>
                      getResourcePath(r1) = getResourcePath(r2)
               /\ (r1.scope # r2.scope \/ r1.name # r2.name) =>
                      getResourcePath(r1) # getResourcePath(r2)
    /\ \A p \in Procs :
           LET c == calls[p]
               rs == recordsNamed(files, c.saved[1], c.name)
           IN  (c.action = "add" /\ c.saved # <<>>) =>
                   /\ rs # <<>>
                   /\ c.provider[1].path = getResourcePath(rs[Len(rs)])

\* The working copies on disk: the directories directly under a repos
\* directory.
workingCopies(D) ==
    {d \in D : \E sc \in {"global", "project"}, n \in Names : d = workingCopy(sc, n)}

\* C17: remove(name) of a registered name, whatever project flag the call
\* carries, writes the registry file of the scope the merged view resolves
\* the name to (project when both registries hold it) and no other: that
\* file loses its records of the name and keeps the others in order, the
\* other registry file is as it was, and of the working copies on disk only
\* the one of that scope and name is gone.
C17_RemoveOwningScopeOnly ==
    \A p \in Procs :
        LET c == calls[p]
            own == owningScope(c.pre.files, c.name)
            path == registryPathOf(own)
        IN  (/\ c.action = "remove" /\ c.pc = "done" /\ c.name # Undefined
             /\ registered(c.pre.files, c.name)) =>
                /\ c.response.kind = "removed"
                /\ c.saved = <<path>>
                /\ loadRegistry(files, path).resources =
                       SelectSeq(loadRegistry(c.pre.files, path).resources,
                                 LAMBDA r : r.name # c.name)
                /\ files[otherRegistry(path)] = c.pre.files[otherRegistry(path)]
                /\ workingCopies(dirs) =
                       workingCopies(c.pre.dirs) \ {workingCopy(own, c.name)}

\* C17 witness: a remove without the project flag has removed the project
\* record and the project working copy of a name that both registries hold
\* and both scopes have on disk; the global record and the global working
\* copy are still there.
C17_Witness ==
    \E p \in Procs :
        LET c == calls[p]
        IN  /\ c.action = "remove" /\ c.pc = "done" /\ c.name # Undefined
            /\ ~c.project
            /\ recordsNamed(c.pre.files, PROJECT_REGISTRY, c.name) # <<>>
            /\ recordsNamed(c.pre.files, GLOBAL_REGISTRY, c.name) # <<>>
            /\ workingCopy("project", c.name) \in c.pre.dirs
            /\ workingCopy("global", c.name) \in c.pre.dirs
            /\ recordsNamed(files, PROJECT_REGISTRY, c.name) = <<>>
            /\ recordsNamed(files, GLOBAL_REGISTRY, c.name) # <<>>
            /\ workingCopy("project", c.name) \notin dirs
            /\ workingCopy("global", c.name) \in dirs

Mutating == {"add", "remove", "update", "restore"}
requestedRegistry(c) == IF c.project THEN PROJECT_REGISTRY ELSE GLOBAL_REGISTRY
writtenFiles(c) == {c.saved[k] : k \in 1..Len(c.saved)}

\* C18 as stated: every registry file an invocation of add, remove, update or
\* restore writes is the file of the scope the call asks for (global unless
\* the project flag is given), so one invocation writes one file at most.
C18_OneStoreByRequestedScope ==
    \A p \in Procs :
        LET c == calls[p]
        IN  c.action \in Mutating =>
                /\ writtenFiles(c) \subseteq {requestedRegistry(c)}
                /\ \A path \in RegistryPaths \ {requestedRegistry(c)} :
                       files[path] = c.pre.files[path]

\* C18, amended: every registry write of a mutating invocation goes to the
\* file of the scope of the resource it acts on. add writes the file of the
\* scope the call asks for, once at most; remove writes the file of the
\* scope the merged view resolves the name to, once at most, whatever the
\* project flag; update and restore write once for each provider call that
\* returned exit status 0, each time the file of the scope that resource
\* resolves to, so that one invocation over all resources may write both
\* files. A file the invocation has not written is as it was.
C18_WritesOwningScope ==
    \A p \in Procs :
        LET c == calls[p]
        IN  c.action \in Mutating =>
                /\ c.action = "add" =>
                       c.saved \in {<<>>, <<requestedRegistry(c)>>}
                /\ c.action = "remove" =>
                       c.saved \in {<<>>,
                           <<registryPathOf(owningScope(c.pre.files, c.name))>>}
                /\ c.action \in {"update", "restore"} =>
                       /\ Len(c.saved) = Cardinality(okCalls(c))
                       /\ Len(c.saved) = Len(c.stamped)
                       /\ \A k \in 1..Len(c.saved) :
                              c.saved[k] = registryPathOf(
                                  owningScope(c.pre.files, c.stamped[k].name))
                /\ \A path \in RegistryPaths \ writtenFiles(c) :
                       files[path] = c.pre.files[path]

\* C18 witness: one update of all resources, called without project flag,
\* has written the global registry file and then the project registry file.
C18_Witness ==
    \E p \in Procs :
        LET c == calls[p]
        IN  /\ c.action = "update" /\ c.name = Undefined /\ c.pc = "done"
            /\ ~c.project
            /\ c.saved = <<GLOBAL_REGISTRY, PROJECT_REGISTRY>>
            /\ files[GLOBAL_REGISTRY] # c.pre.files[GLOBAL_REGISTRY]
            /\ files[PROJECT_REGISTRY] # c.pre.files[PROJECT_REGISTRY]

\* Two registries hold the same records in the same order, updatedAt aside.
sameButUpdatedAt(R1, R2) ==
    /\ R1.version = R2.version
    /\ Len(R1.resources) = Len(R2.resources)
    /\ \A k \in 1..Len(R1.resources) :
           [R1.resources[k] EXCEPT !.updatedAt = 0] =
               [R2.resources[k] EXCEPT !.updatedAt = 0]

\* C19: at every point of an update or a restore, each registry file holds
\* the records it held when the invocation started, in the same order and
\* with the same name, url, branch, notes, scope and clonedAt; a file that
\* was absent or unparseable is still so; updatedAt is the only field that
\* may differ. Invocation by invocation this holds across any sequence of
\* updates and restores.
C19_OnlyUpdatedAtChanges ==
    \A p \in Procs :
        LET c == calls[p]
        IN  c.action \in {"update", "restore"} =>
                \A path \in RegistryPaths :
                    /\ files[path].exists = c.pre.files[path].exists
                    /\ files[path].json = c.pre.files[path].json
                    /\ sameButUpdatedAt(loadRegistry(c.pre.files, path),
                                        loadRegistry(files, path))

\* C19 witness: a restore of all resources has written a later updatedAt
\* into a registry file that holds two records.
C19_Witness ==
    \E p \in Procs, path \in RegistryPaths :
        LET c == calls[p]
            before == loadRegistry(c.pre.files, path).resources
            after == loadRegistry(files, path).resources
        IN  /\ c.action = "restore" /\ c.pc = "done" /\ c.name = Undefined
            /\ Len(before) = 2
            /\ \E k \in 1..Len(before) : after[k].updatedAt > before[k].updatedAt

\* Position of the resource named n in the list of resources an invocation
\* works through (names are unique in the merged view).
positionOf(c, n) ==
    CHOOSE k \in 1..Len(c.resources) : c.resources[k].name = n

\* C20: in an update or restore of all resources at most one provider call
\* is in flight, and it is the last one started; every earlier call has
\* returned and, if it returned exit status 0, its timestamp write is saved
\* before the next call starts; the calls and the writes follow the order of
\* the merged view; and every updatedAt the invocation has written is still
\* in its registry file, no later write of the invocation having put an
\* older value back.
C20_SequentialBatch ==
    \A p \in Procs :
        LET c == calls[p]
            n == Len(c.provider)
        IN  (c.action \in {"update", "restore"} /\ c.name = Undefined) =>
                /\ \A j \in 1..(n - 1) : c.provider[j].outcome # "pending"
                /\ (n > 0 /\ c.provider[n].outcome = "pending") =
                       (c.pc \in {"pull", "clone"})
                /\ c.pc \in {"pull", "clone"} =>
                       c.provider[n].path =
                           workingCopy(c.resources[c.i].scope,
                                       c.resources[c.i].name)
                /\ \A j \in 1..n :
                       \E k \in 1..Len(c.resources) :
                           /\ k <= c.i
                           /\ c.provider[j].path =
                                  workingCopy(c.resources[k].scope,
                                              c.resources[k].name)
                           /\ \A h \in 1..(j - 1) :
                                  \E g \in 1..(k - 1) :
                                      c.provider[h].path =
                                          workingCopy(c.resources[g].scope,
                                                      c.resources[g].name)
                /\ Len(c.stamped) = Cardinality(okCalls(c))
                /\ \A a, b \in 1..Len(c.stamped) :
                       a < b =>
                           /\ positionOf(c, c.stamped[a].name) <
                                  positionOf(c, c.stamped[b].name)
                           /\ c.stamped[a].at <= c.stamped[b].at
                /\ \A a \in 1..Len(c.stamped) :
                       owningRecord(files, c.stamped[a].name).updatedAt =
                           c.stamped[a].at

\* C20 witness: an update of all resources has written the timestamps of two
\* records of the same registry file, one after the other, and the first
\* record still carries the updatedAt of its write, later than the one it
\* had before.
C20_Witness ==
    \E p \in Procs :
        LET c == calls[p]
        IN  /\ c.action = "update" /\ c.name = Undefined /\ c.pc = "done"
            /\ Len(c.stamped) = 2
            /\ c.saved[1] = c.saved[2]
            /\ owningRecord(files, c.stamped[1].name).updatedAt = c.stamped[1].at
            /\ owningRecord(c.pre.files, c.stamped[1].name).updatedAt
                   < c.stamped[1].at

\* C21: every resource of the merged view is a record of one of the two
\* registry files with its scope field replaced by the scope of that file,
\* project when the project file holds the name and global otherwise,
\* whatever scope the record declares in the file, if any; and the record an
\* add has saved declares the scope of the registry file it was saved to.
C21_ScopeFollowsStore ==
    /\ \A k \in 1..Len(getMergedResources(files)) :
           LET m == getMergedResources(files)[k]
               inProject == recordsNamed(files, PROJECT_REGISTRY, m.name)
               inGlobal == recordsNamed(files, GLOBAL_REGISTRY, m.name)
           IN  IF inProject # <<>>
               THEN /\ m.scope = "project"
                    /\ \E j \in 1..Len(inProject) :
                           m = [inProject[j] EXCEPT !.scope = "project"]
               ELSE /\ m.scope = "global"
                    /\ \E j \in 1..Len(inGlobal) :
                           m = [inGlobal[j] EXCEPT !.scope = "global"]
    /\ \A p \in Procs :
           LET c == calls[p]
               rs == recordsNamed(files, c.saved[1], c.name)
           IN  (c.action = "add" /\ c.saved # <<>>) =>
                   /\ rs # <<>>
                   /\ rs[Len(rs)].scope = scopeOfRegistry(c.saved[1])

\* C21 witness: the project registry file holds a record that declares
\* scope global, the global registry file holds a record of the same name
\* that declares no scope, and the merged view shows the name with scope
\* project.
C21_Witness ==
    \E n \in Names :
        /\ \E j \in 1..Len(recordsNamed(files, PROJECT_REGISTRY, n)) :
               recordsNamed(files, PROJECT_REGISTRY, n)[j].scope = "global"
        /\ \E j \in 1..Len(recordsNamed(files, GLOBAL_REGISTRY, n)) :
               recordsNamed(files, GLOBAL_REGISTRY, n)[j].scope = Undefined
        /\ \E k \in 1..Len(getMergedResources(files)) :
               /\ getMergedResources(files)[k].name = n
               /\ getMergedResources(files)[k].scope = "project"

\* C22: two adds in two processes that have both loaded the same content of
\* the same registry file and have both saved leave the file with that
\* content and one record more, not two: the record of the add that saved
\* last, while the record the other add saved is gone (last writer wins).
C22_LastWriterWins ==
    \A p, q \in Procs :
        LET c == calls[p]
            d == calls[q]
            now == loadRegistry(files, c.saved[1]).resources
        IN  (/\ p # q
             /\ c.action = "add" /\ d.action = "add"
             /\ c.saved # <<>> /\ d.saved # <<>> /\ c.saved = d.saved
             /\ c.loaded = d.loaded) =>
                /\ Len(now) = Len(c.loaded.resources) + 1
                /\ SubSeq(now, 1, Len(now) - 1) = c.loaded.resources
                /\ now[Len(now)].name \in {c.name, d.name}

\* C22 witness: two adds of different names to the same scope have both
\* answered that the resource was added, both working copies are on disk,
\* and the registry file holds the record of one of them only.
C22_Witness ==
    \E p, q \in Procs :
        LET c == calls[p]
            d == calls[q]
        IN  /\ p # q /\ c.name # d.name
            /\ c.pc = "done" /\ c.response.kind = "added"
            /\ d.pc = "done" /\ d.response.kind = "added"
            /\ c.saved = d.saved
            /\ c.loaded = d.loaded
            /\ workingCopy(scopeOfRegistry(c.saved[1]), c.name) \in dirs
            /\ workingCopy(scopeOfRegistry(c.saved[1]), d.name) \in dirs
            /\ recordsNamed(files, c.saved[1], c.name) = <<>>
            /\ recordsNamed(files, c.saved[1], d.name) # <<>>

\* C23: from empty registries and an empty disk, with nothing changed out of
\* band and a clone that leaves the directory exactly when it returns exit
\* status 0, in every state, and so after every completed add, remove,
\* update and restore, the working copy of a scope and name is on disk if
\* and only if the registry file of that scope holds a record of that name;
\* restore then never has anything to clone.
C23_RegistryAndDiskInStep ==
    /\ \A sc \in {"global", "project"}, n \in Names :
           (workingCopy(sc, n) \in dirs) =
               (recordsNamed(files, registryPathOf(sc), n) # <<>>)
    /\ \A p \in Procs :
           calls[p].action = "restore" => calls[p].provider = <<>>

\* C23 witness: a remove of a cloned resource has completed; the removed
\* name has neither record nor working copy in either scope, the other name
\* has both in one scope.
C23_Witness ==
    \E p \in Procs, n \in Names, sc \in {"global", "project"} :
        LET c == calls[p]
        IN  /\ c.action = "remove" /\ c.pc = "done" /\ c.response.kind = "removed"
            /\ n # c.name
            /\ workingCopy(sc, n) \in dirs
            /\ recordsNamed(files, registryPathOf(sc), n) # <<>>
            /\ \A s2 \in {"global", "project"} :
                   /\ workingCopy(s2, c.name) \notin dirs
                   /\ recordsNamed(files, registryPathOf(s2), c.name) = <<>>
            /\ \E s2 \in {"global", "project"} :
                   workingCopy(s2, c.name) \in c.pre.dirs

\* C24: with two add invocations of one process interleaved at their clones,
\* no name is recorded more than once, counting the records of both registry
\* files.
C24_UniqueUnderInterleaving ==
    \A n \in Names :
        Len(recordsNamed(files, GLOBAL_REGISTRY, n))
            + Len(recordsNamed(files, PROJECT_REGISTRY, n)) <= 1
====
